---------------------------- MODULE Spec2Model ----------------------------
(***************************************************************************)
(* The user-account subsystem of next-ecommerce: the User model            *)
(* (src/models/user.ts), its controllers (src/controllers/user.ts) and the *)
(* boundary wrapper (src/lib/catchAsync.ts), as a state machine; beside it *)
(* the products route (src/unnamed/part_000) and formatMobile              *)
(* (src/lib/formatMobile.ts), each under a specification of its own.       *)
(*                                                                         *)
(* Every request is served by a request slot p.  A handler is cut into one *)
(* step per awaited store operation; the local computation between two     *)
(* store operations belongs to the step of the store operation before or   *)
(* after it.  Strings are tuples of one-character strings, so that trim,   *)
(* split, length and the email pattern are computed as the code computes   *)
(* them.  The fields avatar, createdAt and updatedAt carry no validation   *)
(* and take part in no decision of the handlers; they are left out.        *)
(***************************************************************************)
EXTENDS Naturals, Sequences, FiniteSets, TLC

(***************************************************************************)
(* Bounds of the model.                                                    *)
(***************************************************************************)
\* the request slots served concurrently
NumProcs == 2
\* the records the store can hold
MaxUsers == 2
\* the days the clock can advance
MaxTime == 1
\* the requests the server takes in
MaxRequests == 3
\* the length of the arguments of formatMobile drawn from all strings
MaxMobileLen == 5
\* the number of digits of the longest argument of formatMobile
MaxMobileDigits == 12

Procs == 1..NumProcs

(***************************************************************************)
(* Strings.                                                                *)
(***************************************************************************)
\* a string field the request body does not carry (undefined)
Absent == << "undefined" >>
\* the empty string
Empty == << >>

RECURSIVE TrimLeft(_)
TrimLeft(s) ==
    IF s # Empty /\ Head(s) = " " THEN TrimLeft(Tail(s)) ELSE s

RECURSIVE TrimRight(_)
TrimRight(s) ==
    IF s # Empty /\ s[Len(s)] = " " THEN TrimRight(SubSeq(s, 1, Len(s) - 1)) ELSE s

\* the setter of { type: String, trim: true }; an undefined value stays undefined
Trim(s) == IF s = Absent THEN Absent ELSE TrimRight(TrimLeft(s))

\* val.split(' '): the pieces between the spaces, empty pieces included
RECURSIVE Split(_)
Split(s) ==
    IF \A i \in 1..Len(s) : s[i] # " "
    THEN << s >>
    ELSE LET k == CHOOSE i \in 1..Len(s) :
                      s[i] = " " /\ \A j \in 1..(i - 1) : s[j] # " "
         IN  << SubSeq(s, 1, k - 1) >> \o Split(SubSeq(s, k + 1, Len(s)))

\* JavaScript truthiness of an optional string
Truthy(s) == s # Absent /\ s # Empty

(***************************************************************************)
(* The schema's validators.                                                *)
(***************************************************************************)
\* required: [true, ...] on a String path
Required(val) == val # Absent /\ val # Empty

\* name.validate.validator
NameValidator(val) ==
    LET valArray == Split(val)
    IN  /\ valArray[1] # Empty
        /\ Len(valArray) >= 2
        /\ valArray[2] # Empty

\* \w of the email pattern
WordChars == {"a", "b", "c", "d", "0", "_"}

\* \w+([\.-]?\w+)*
Dotted(s) ==
    /\ Len(s) >= 1
    /\ s[1] \in WordChars
    /\ s[Len(s)] \in WordChars
    /\ \A i \in 1..Len(s) : s[i] \in WordChars \cup {".", "-"}
    /\ \A i \in 1..(Len(s) - 1) : s[i] \in WordChars \/ s[i + 1] \in WordChars

\* (\.\w{2,3})+
RECURSIVE TopLevel(_)
TopLevel(s) ==
    /\ Len(s) >= 3
    /\ s[1] = "."
    /\ \E k \in {2, 3} :
          /\ Len(s) >= 1 + k
          /\ \A i \in 2..(1 + k) : s[i] \in WordChars
          /\ \/ Len(s) = 1 + k
             \/ TopLevel(SubSeq(s, k + 2, Len(s)))

\* email.match: /^\w+([\.-]?\w+)*@\w+([\.-]?\w+)*(\.\w{2,3})+$/
EmailMatch(s) ==
    \E i \in 1..Len(s) :
       /\ s[i] = "@"
       /\ Dotted(SubSeq(s, 1, i - 1))
       /\ \E j \in (i + 1)..Len(s) :
             /\ Dotted(SubSeq(s, i + 1, j))
             /\ TopLevel(SubSeq(s, j + 1, Len(s)))

\* password.minlength
MinLength == 6

\* role.enum.values
Roles == {"user", "admin"}

\* role.default
DefaultRole == "user"

(***************************************************************************)
(* The password hasher.  The salt only makes two hashes of one plaintext   *)
(* differ; verification does not depend on it, and it is left out.         *)
(***************************************************************************)
\* bcrypt.hash(this.password, salt) with bcrypt.genSalt(12)
Hash(plain) == [alg |-> "bcrypt", rounds |-> 12, of |-> plain]

\* a stored password string that the hasher did not produce
Unhashed(plain) == [alg |-> "none", rounds |-> 0, of |-> plain]

\* comparePassword: bcrypt.compare(password, userPassword)
ComparePassword(password, userPassword) == userPassword = Hash(password)

(***************************************************************************)
(* Errors and the boundary wrapper.                                        *)
(***************************************************************************)
\* createHttpError(status, message)
CreateHttpError(status, message) ==
    [name |-> "HttpError", statusCode |-> status, message |-> message, errors |-> {}]

\* mongoose's ValidationError: no statusCode, one entry per failing path
ValidationError(paths) ==
    [name |-> "ValidationError", statusCode |-> 0,
     message |-> "User validation failed", errors |-> paths]

\* the store's rejection of a write that duplicates the unique email index
DuplicateKeyError ==
    [name |-> "MongoServerError", statusCode |-> 0,
     message |-> "E11000 duplicate key error", errors |-> {"email"}]

\* no error
NoError == [name |-> "", statusCode |-> 0, message |-> "", errors |-> {}]

\* the catch callback without the two remappings by name
CatchAsyncNoRemap(error) ==
    [status  |-> IF error.statusCode # 0 THEN error.statusCode ELSE 500,
     message |-> IF error.message # "" THEN error.message ELSE "Something went wrong!"]

\* what the catch callback of catchAsync sends: res.status(statusCode).json({ message })
CatchAsync(error) ==
    LET e1 == IF error.name = "JsonWebTokenError"
              THEN CreateHttpError(401, "Invalid token!") ELSE error
        e2 == IF e1.name = "TokenExpiredError"
              THEN CreateHttpError(401, "Token has been expired!") ELSE e1
    IN  [status  |-> IF e2.statusCode # 0 THEN e2.statusCode ELSE 500,
         message |-> IF e2.message # "" THEN e2.message ELSE "Something went wrong!"]

(***************************************************************************)
(* Session tokens and the session cookie.                                  *)
(***************************************************************************)
\* the lifetime of a token and of the session cookie, in days
DAY_EXPIRE == 1

\* new Date(0)
Epoch == 0

\* a request that carries no access-token cookie, or an empty one
NoToken == [id |-> 0, exp |-> 0, sig |-> "none"]

\* jwt.sign({ id }, SECRET_KEY, { expiresIn: DAY_EXPIRE days }) at time t
SignToken(id, t) == [id |-> id, exp |-> t + DAY_EXPIRE, sig |-> "ok"]

\* a token the server's secret did not sign
ForgedToken == [id |-> 1, exp |-> Epoch + MaxTime + DAY_EXPIRE + 2, sig |-> "bad"]

\* a response that sets no cookie
NoSetCookie ==
    [name |-> "", value |-> NoToken, httpOnly |-> FALSE, sameSite |-> "", expires |-> Epoch]

\* setCookie(req, res, name, value, options)
SetCookie(name, value, options) ==
    [name |-> name, value |-> value, httpOnly |-> options.httpOnly,
     sameSite |-> options.sameSite, expires |-> options.expires]

\* the options of a cookie that scripts can read and other sites can send
SessionOptionsLax(t) == [httpOnly |-> FALSE, sameSite |-> "lax", expires |-> t + DAY_EXPIRE]

\* { httpOnly: true, sameSite: 'strict', expires: new Date(EXPIRE_TIME) } at time t
SessionOptions(t) == [httpOnly |-> TRUE, sameSite |-> "strict", expires |-> t + DAY_EXPIRE]

\* { expires: new Date(0) }
ClearOptions == [httpOnly |-> FALSE, sameSite |-> "", expires |-> Epoch]

(***************************************************************************)
(* Documents.                                                              *)
(***************************************************************************)
\* a role the request body does not carry
NoRole == "undefined"

\* no document (null)
NoUser == [none |-> TRUE]

\* new User(fields): the setters and the defaults applied to the given fields
NewDocument(fields) ==
    [name            |-> Trim(fields.name),
     email           |-> Trim(fields.email),
     password        |-> Trim(fields.password),
     confirmPassword |-> Trim(fields.confirmPassword),
     role            |-> IF fields.role = NoRole THEN DefaultRole ELSE fields.role]

\* the paths of the document that fail validation; password and
\* confirmPassword are still the plaintexts when validation runs
ValidationErrors(doc) ==
       { f \in {"name"} : ~Required(doc.name) \/ ~NameValidator(doc.name) }
  \cup { f \in {"email"} : ~Required(doc.email) \/ ~EmailMatch(doc.email) }
  \cup { f \in {"password"} :
             ~Required(doc.password) \/ Len(doc.password) < MinLength }
  \cup { f \in {"confirmPassword"} :
             ~Required(doc.confirmPassword) \/ doc.confirmPassword # doc.password }
  \cup { f \in {"role"} : doc.role \notin Roles }

\* userSchema.pre('save') of a document whose password is modified
PreSave(doc) ==
    [doc EXCEPT !.password = Hash(doc.password), !.confirmPassword = Empty]

\* toJSON without the transform
ToJSONNoTransform(doc) == doc

\* the toJSON transform: delete ret.password; delete ret.confirmPassword
ToJSON(doc) ==
    [f \in (DOMAIN doc) \ {"password", "confirmPassword"} |-> doc[f]]

\* a query result without the select: false paths
Selected(doc) ==
    [f \in (DOMAIN doc) \ {"password", "confirmPassword"} |-> doc[f]]

(***************************************************************************)
(* The state.                                                              *)
(***************************************************************************)
VARIABLES
    users,      \* the User collection: the record with _id i is users[i]
    secret,     \* whether process.env.SECRET_KEY is set
    now,        \* the clock, in days since Epoch
    issued,     \* the tokens the server has signed so far
    signedOut,  \* the tokens a logout was answered 200 for
    served,     \* the number of requests taken in so far
    pc,         \* pc[p]: the await the handler of slot p is suspended at
    loc,        \* loc[p]: the local variables of that handler; for updateMe
                \* also the caller's record as it was when the call began
    out,        \* the response the last step sent, with the request it answers
    route,      \* the products route: the handler's position, what it called
                \* and what it sent
    mobile      \* a call of formatMobile: its argument and its results

\* the state of the account subsystem
accountVars == << users, secret, now, issued, signedOut, served, pc, loc, out >>

vars == << users, secret, now, issued, signedOut, served, pc, loc, out,
           route, mobile >>

\* the products route has taken in no request
NoRoute ==
    [pc |-> "idle", method |-> "", connected |-> FALSE, called |-> "none",
     error |-> NoError, sent |-> 0, status |-> 0, message |-> ""]

\* formatMobile has not been called
NoMobile == [pc |-> "idle", value |-> << >>, once |-> << >>, twice |-> << >>]

\* the schema without unique: true on email
EmailTakenNoIndex(email, except) == FALSE

\* the unique index on email: some record other than except has the email
EmailTaken(email, except) ==
    \E i \in 1..Len(users) : i # except /\ users[i].email = email

\* no local variables
NoLoc == [none |-> TRUE]

\* what a response records of the request it answers
Request(token, email, password) ==
    [token |-> token, email |-> email, password |-> password]

\* the last step sent no response
NoResponse ==
    [op |-> "none", proc |-> 0, status |-> 0, message |-> "", user |-> NoUser,
     cookie |-> NoSetCookie, req |-> Request(NoToken, Absent, Absent)]

\* the catch callback's response
Failure(op, p, error, req) ==
    [op |-> op, proc |-> p, status |-> CatchAsync(error).status,
     message |-> CatchAsync(error).message, user |-> NoUser,
     cookie |-> NoSetCookie, req |-> req]

\* res.status(status).json({ message: 'Success', data: { user } })
Success(op, p, status, user, cookie, req) ==
    [op |-> op, proc |-> p, status |-> status, message |-> "Success",
     user |-> user, cookie |-> cookie, req |-> req]

\* slot p is free and takes in a request
Accept(p) ==
    /\ pc[p] = "idle"
    /\ served < MaxRequests
    /\ served' = served + 1

\* the handler of slot p ends with response r
Finish(p, r) ==
    /\ pc' = [pc EXCEPT ![p] = "idle"]
    /\ loc' = [loc EXCEPT ![p] = NoLoc]
    /\ out' = r
    /\ UNCHANGED << route, mobile >>

\* the handler of slot p goes on to the await at label with locals l
Await(p, label, l) ==
    /\ pc' = [pc EXCEPT ![p] = label]
    /\ loc' = [loc EXCEPT ![p] = l]
    /\ out' = NoResponse
    /\ UNCHANGED << route, mobile >>

(***************************************************************************)
(* The request bodies the clients send.                                    *)
(***************************************************************************)
NameTwo   == << "a", " ", "b" >>
NameOne   == << "a", "b" >>
EmailA    == << "a", "@", "b", ".", "c", "c" >>
EmailB    == << "b", "@", "b", ".", "c", "c" >>
EmailBad  == << "a", "@", "b" >>
PassOne   == << "s", "e", "c", "r", "e", "t" >>
PassTwo   == << "h", "u", "n", "t", "e", "r" >>
PassPad   == << " ", "s", "e", "c", "r", "e", "t" >>
PassShort == << "a", "b", "c" >>

RegisterBodies ==
    { [name |-> NameTwo, email |-> e, password |-> pw, confirmPassword |-> pw,
       role |-> NoRole] : e \in {EmailA, EmailB}, pw \in {PassOne, PassPad} }
    \cup
    { [name |-> NameOne, email |-> EmailA, password |-> PassOne,
       confirmPassword |-> PassOne, role |-> NoRole],
      [name |-> NameTwo, email |-> EmailBad, password |-> PassOne,
       confirmPassword |-> PassOne, role |-> NoRole],
      [name |-> NameTwo, email |-> EmailA, password |-> PassShort,
       confirmPassword |-> PassShort, role |-> NoRole],
      [name |-> NameTwo, email |-> EmailA, password |-> PassOne,
       confirmPassword |-> PassTwo, role |-> NoRole],
      [name |-> Absent, email |-> EmailA, password |-> PassOne,
       confirmPassword |-> PassOne, role |-> NoRole],
      [name |-> NameTwo, email |-> EmailA, password |-> PassOne,
       confirmPassword |-> PassOne, role |-> "root"] }

SigninBodies ==
    [email : {Absent, EmailA, EmailB}, password : {Absent, PassOne, PassTwo, PassPad}]

\* the fields of an updateMe body besides password and newPassword; set is
\* the password of an update operator in the body, { $set: { password } }
NoRest == [name |-> Absent, email |-> Absent, role |-> NoRole, set |-> Absent]

UpdateRests ==
    { NoRest,
      [NoRest EXCEPT !.name = NameOne],
      [NoRest EXCEPT !.email = EmailA],
      [NoRest EXCEPT !.email = EmailB],
      [NoRest EXCEPT !.email = EmailBad],
      [NoRest EXCEPT !.role = "root"],
      [NoRest EXCEPT !.set = PassTwo] }

\* password and newPassword of an updateMe body
UpdatePasswords ==
    { [password |-> Absent, newPassword |-> Absent],
      [password |-> PassOne, newPassword |-> Absent],
      [password |-> PassOne, newPassword |-> PassTwo],
      [password |-> PassTwo, newPassword |-> PassOne],
      [password |-> PassOne, newPassword |-> PassShort],
      [password |-> PassOne, newPassword |-> PassPad] }

(***************************************************************************)
(* register (src/controllers/user.ts)                                      *)
(***************************************************************************)
\* User.create({ ...req.body }): validate, hash, insert under the unique index
Register(p, body) ==
    LET doc == NewDocument(body)
        errors == ValidationErrors(doc)
        newUser == [_id |-> Len(users) + 1] @@ PreSave(doc)
        req == Request(NoToken, body.email, body.password)
    IN  /\ Accept(p)
        /\ IF errors # {}
           THEN /\ Finish(p, Failure("register", p, ValidationError(errors), req))
                /\ UNCHANGED users
           ELSE IF EmailTaken(doc.email, 0)
           THEN /\ Finish(p, Failure("register", p, DuplicateKeyError, req))
                /\ UNCHANGED users
           ELSE /\ Len(users) < MaxUsers
                /\ users' = Append(users, newUser)
                /\ Await(p, "reg_token", [newUser |-> newUser, req |-> req])
        /\ UNCHANGED << secret, now, issued, signedOut >>

\* generateToken without the check of SECRET_KEY
GenerateTokenUnchecked(user) == NoError

\* generateToken: sign { id: this._id }, or throw when SECRET_KEY is not set
GenerateToken(user) ==
    IF ~secret
    THEN CreateHttpError(503, "Cannot create access token!")
    ELSE NoError

\* register signing the token without calling generateToken's check
RegisterTokenNoCheck(p) ==
    LET newUser == loc[p].newUser
        accessToken == SignToken(newUser._id, now)
    IN  /\ pc[p] = "reg_token"
        /\ UNCHANGED served
        /\ issued' = issued \cup {accessToken}
        /\ Finish(p, Success("register", p, 201, ToJSON(newUser),
                             SetCookie("access-token", accessToken,
                                       SessionOptions(now)),
                             loc[p].req))
        /\ UNCHANGED << users, secret, now, signedOut >>

\* newUser.generateToken(), setCookie, res.status(201)
RegisterToken(p) ==
    LET newUser == loc[p].newUser
        accessToken == SignToken(newUser._id, now)
    IN  /\ pc[p] = "reg_token"
        /\ UNCHANGED served
        /\ IF GenerateToken(newUser) # NoError
           THEN /\ Finish(p, Failure("register", p, GenerateToken(newUser), loc[p].req))
                /\ UNCHANGED issued
           ELSE /\ issued' = issued \cup {accessToken}
                /\ Finish(p, Success("register", p, 201, ToJSON(newUser),
                                     SetCookie("access-token", accessToken,
                                               SessionOptions(now)),
                                     loc[p].req))
        /\ UNCHANGED << users, secret, now, signedOut >>

(***************************************************************************)
(* signin (src/controllers/user.ts)                                        *)
(***************************************************************************)
\* a query result with .select('+password'): confirmPassword stays unselected
SelectedWithPassword(doc) ==
    [f \in (DOMAIN doc) \ {"confirmPassword"} |-> doc[f]]

\* findByCredentials: this.findOne({ email }).select('+password'); the query
\* casts email with the path's setters
FindByEmail(email) ==
    IF EmailTaken(Trim(email), 0)
    THEN SelectedWithPassword(
             users[CHOOSE i \in 1..Len(users) : users[i].email = Trim(email)])
    ELSE NoUser

Signin(p, body) ==
    LET user == FindByEmail(body.email)
        accessToken == SignToken(user._id, now)
        req == Request(NoToken, body.email, body.password)
    IN  /\ Accept(p)
        /\ IF ~Truthy(body.email) \/ ~Truthy(body.password)
           THEN /\ Finish(p, Failure("signin", p,
                        CreateHttpError(400, "Please provide email and password!"), req))
                /\ UNCHANGED issued
           ELSE IF user = NoUser
           THEN /\ Finish(p, Failure("signin", p,
                                     CreateHttpError(400, "Invalid email!"), req))
                /\ UNCHANGED issued
           ELSE IF ~ComparePassword(body.password, user.password)
           THEN /\ Finish(p, Failure("signin", p,
                                     CreateHttpError(400, "Wrong password!"), req))
                /\ UNCHANGED issued
           ELSE IF GenerateToken(user) # NoError
           THEN /\ Finish(p, Failure("signin", p, GenerateToken(user), req))
                /\ UNCHANGED issued
           ELSE /\ issued' = issued \cup {accessToken}
                /\ Finish(p, Success("signin", p, 201, ToJSON(user),
                                     SetCookie("access-token", accessToken,
                                               SessionOptions(now)),
                                     req))
        /\ UNCHANGED << users, secret, now, signedOut >>

(***************************************************************************)
(* The authentication guard.                                               *)
(***************************************************************************)
\* what checkAuth throws for the token a request carries: the token is
\* missing, its signature is not the server's, it is expired, or its id
\* resolves to no record
AuthError(token) ==
    IF token.sig = "none"
    THEN CreateHttpError(401, "Unauthorized")
    ELSE IF token.sig # "ok"
    THEN [name |-> "JsonWebTokenError", statusCode |-> 0,
          message |-> "invalid signature", errors |-> {}]
    ELSE IF now >= token.exp
    THEN [name |-> "TokenExpiredError", statusCode |-> 0,
          message |-> "jwt expired", errors |-> {}]
    ELSE IF token.id \notin 1..Len(users)
    THEN CreateHttpError(401, "Unauthorized")
    ELSE NoError

\* req.user after checkAuth
AuthUser(token) == Selected(users[token.id])

\* the tokens a request can carry
RequestTokens == issued \cup {NoToken, ForgedToken}

(***************************************************************************)
(* logout and getMe (src/controllers/user.ts)                              *)
(***************************************************************************)
\* logout without checkAuth
LogoutNoGuard(p, token) ==
    LET req == Request(token, Absent, Absent)
    IN  /\ Accept(p)
        /\ Finish(p, Success("logout", p, 200, NoUser,
                             SetCookie("access-token", NoToken, ClearOptions), req))
        /\ signedOut' = signedOut \cup {token}
        /\ UNCHANGED << users, secret, now, issued >>

Logout(p, token) ==
    LET req == Request(token, Absent, Absent)
    IN  /\ Accept(p)
        /\ IF AuthError(token) # NoError
           THEN /\ Finish(p, Failure("logout", p, AuthError(token), req))
                /\ UNCHANGED signedOut
           ELSE /\ Finish(p, Success("logout", p, 200, NoUser,
                                     SetCookie("access-token", NoToken, ClearOptions),
                                     req))
                /\ signedOut' = signedOut \cup {token}
        /\ UNCHANGED << users, secret, now, issued >>

\* getMe refusing the tokens a logout was answered for
GetMeDenySignedOut(p, token, orders) ==
    LET req == Request(token, Absent, Absent)
    IN  /\ Accept(p)
        /\ IF AuthError(token) # NoError
           THEN Finish(p, Failure("getMe", p, AuthError(token), req))
           ELSE IF token \in signedOut
           THEN Finish(p, Failure("getMe", p, CreateHttpError(401, "Unauthorized"), req))
           ELSE IF orders
           THEN Await(p, "me_orders", [id |-> token.id, req |-> req])
           ELSE Finish(p, Success("getMe", p, 200, ToJSON(AuthUser(token)),
                                  NoSetCookie, req))
        /\ UNCHANGED << users, secret, now, issued, signedOut >>

GetMe(p, token, orders) ==
    LET req == Request(token, Absent, Absent)
    IN  /\ Accept(p)
        /\ IF AuthError(token) # NoError
           THEN Finish(p, Failure("getMe", p, AuthError(token), req))
           ELSE IF orders
           THEN Await(p, "me_orders", [id |-> token.id, req |-> req])
           ELSE Finish(p, Success("getMe", p, 200, ToJSON(AuthUser(token)),
                                  NoSetCookie, req))
        /\ UNCHANGED << users, secret, now, issued, signedOut >>

\* User.findMyOrders(id): this.findById(id).populate({ path: 'orders', ... })
FindMyOrders(id) ==
    IF id \in 1..Len(users)
    THEN [orders |-> << >>] @@ Selected(users[id])
    ELSE NoUser

GetMeOrders(p) ==
    LET user == FindMyOrders(loc[p].id)
    IN  /\ pc[p] = "me_orders"
        /\ UNCHANGED served
        /\ IF user = NoUser
           THEN Finish(p, Failure("getMe", p,
                                  CreateHttpError(400, "No user with this id"),
                                  loc[p].req))
           ELSE Finish(p, Success("getMe", p, 200, ToJSON(user), NoSetCookie,
                                  loc[p].req))
        /\ UNCHANGED << users, secret, now, issued, signedOut >>

(***************************************************************************)
(* updateMe (src/controllers/user.ts) and updatePassword.  The handler     *)
(* reads the body after checkAuth; the body is drawn at the step that      *)
(* destructures it.                                                        *)
(***************************************************************************)
UpdateMe(p, token) ==
    LET req == Request(token, Absent, Absent)
    IN  /\ Accept(p)
        /\ IF AuthError(token) # NoError
           THEN Finish(p, Failure("updateMe", p, AuthError(token), req))
           ELSE Await(p, "upd_write",
                      [id |-> token.id, req |-> req, before |-> users[token.id]])
        /\ UNCHANGED << users, secret, now, issued, signedOut >>

\* the update { ...rest } cast by the schema: the keys that are no operators
\* are put under $set beside the operators the body carries; setters run,
\* validators and the pre('save') hook do not
ApplyUpdate(doc, rest) ==
    [doc EXCEPT !.name  = IF rest.name = Absent THEN @ ELSE Trim(rest.name),
                !.email = IF rest.email = Absent THEN @ ELSE Trim(rest.email),
                !.role  = IF rest.role = NoRole THEN @ ELSE rest.role,
                !.password = IF rest.set = Absent THEN @
                             ELSE Unhashed(Trim(rest.set))]

\* findByIdAndUpdate on a collection without the unique index on email
UpdateWriteNoIndex(p, rest, pw) ==
    LET id == loc[p].id
        updateUser == ApplyUpdate(users[id], rest)
        req == [newPassword |-> pw.newPassword] @@
               Request(loc[p].req.token, Absent, pw.password)
    IN  /\ pc[p] = "upd_write"
        /\ UNCHANGED served
        /\ users' = [users EXCEPT ![id] = updateUser]
        /\ IF Truthy(pw.newPassword) /\ Truthy(pw.password)
           THEN Await(p, "upd_verify",
                      [id |-> id, password |-> pw.password,
                       newPassword |-> pw.newPassword,
                       updateUser |-> Selected(updateUser), req |-> req,
                       before |-> loc[p].before])
           ELSE Finish(p, Success("updateMe", p, 200,
                                  ToJSON(Selected(updateUser)), NoSetCookie, req))
        /\ UNCHANGED << secret, now, issued, signedOut >>

\* const { password, newPassword, ...rest } = req.body;
\* User.findByIdAndUpdate(req.user._id, { ...rest }, { new: true })
UpdateWrite(p, rest, pw) ==
    LET id == loc[p].id
        updateUser == ApplyUpdate(users[id], rest)
        req == [newPassword |-> pw.newPassword] @@
               Request(loc[p].req.token, Absent, pw.password)
    IN  /\ pc[p] = "upd_write"
        /\ UNCHANGED served
        /\ IF id \notin 1..Len(users)
           THEN /\ Finish(p, Failure("updateMe", p,
                                     CreateHttpError(404, "No user with this id"), req))
                /\ UNCHANGED users
           ELSE IF rest.email # Absent /\ EmailTaken(updateUser.email, id)
           THEN /\ Finish(p, Failure("updateMe", p, DuplicateKeyError, req))
                /\ UNCHANGED users
           ELSE /\ users' = [users EXCEPT ![id] = updateUser]
                /\ IF Truthy(pw.newPassword) /\ Truthy(pw.password)
                   THEN Await(p, "upd_verify",
                              [id |-> id, password |-> pw.password,
                               newPassword |-> pw.newPassword,
                               updateUser |-> Selected(updateUser), req |-> req,
                               before |-> loc[p].before])
                   ELSE Finish(p, Success("updateMe", p, 200,
                                          ToJSON(Selected(updateUser)), NoSetCookie, req))
        /\ UNCHANGED << secret, now, issued, signedOut >>

\* updatePassword: this.findById(id).select('+password'), comparePassword,
\* then user.password = newPassword; user.confirmPassword = newPassword
UpdateVerify(p) ==
    LET id == loc[p].id
        user == SelectedWithPassword(users[id])
    IN  /\ pc[p] = "upd_verify"
        /\ UNCHANGED served
        /\ IF id \notin 1..Len(users)
           THEN Finish(p, Failure("updateMe", p,
                                  CreateHttpError(400, "Invalid email!"), loc[p].req))
           ELSE IF ~ComparePassword(loc[p].password, user.password)
           THEN Finish(p, Failure("updateMe", p,
                                  CreateHttpError(400, "Wrong password!"), loc[p].req))
           ELSE Await(p, "upd_save",
                      [id |-> id,
                       user |-> [confirmPassword |-> Trim(loc[p].newPassword)] @@
                                [user EXCEPT !.password = Trim(loc[p].newPassword)],
                       updateUser |-> loc[p].updateUser, req |-> loc[p].req,
                       before |-> loc[p].before])
        /\ UNCHANGED << users, secret, now, issued, signedOut >>

\* updatePassword: user.save(): validate, hash, write the modified paths
UpdateSave(p) ==
    LET id == loc[p].id
        user == loc[p].user
        errors == ValidationErrors(user)
    IN  /\ pc[p] = "upd_save"
        /\ UNCHANGED served
        /\ IF errors # {}
           THEN /\ Finish(p, Failure("updateMe", p, ValidationError(errors), loc[p].req))
                /\ UNCHANGED users
           ELSE /\ users' = [users EXCEPT
                                ![id].password = PreSave(user).password,
                                ![id].confirmPassword = PreSave(user).confirmPassword]
                /\ Finish(p, Success("updateMe", p, 200, ToJSON(loc[p].updateUser),
                                     NoSetCookie, loc[p].req))
        /\ UNCHANGED << secret, now, issued, signedOut >>

(***************************************************************************)
(* The clock, and the specification.                                       *)
(***************************************************************************)
Tick ==
    /\ now < Epoch + 1 + MaxTime
    /\ now' = now + 1
    /\ out' = NoResponse
    /\ UNCHANGED << users, secret, issued, signedOut, served, pc, loc >>
    /\ UNCHANGED << route, mobile >>

AccountInit ==
    /\ users = << >>
    /\ secret \in BOOLEAN
    /\ now = Epoch + 1
    /\ issued = {}
    /\ signedOut = {}
    /\ served = 0
    /\ pc = [p \in Procs |-> "idle"]
    /\ loc = [p \in Procs |-> NoLoc]
    /\ out = NoResponse

Init ==
    /\ AccountInit
    /\ route = NoRoute
    /\ mobile = NoMobile

Next ==
    \/ \E p \in Procs, body \in RegisterBodies : Register(p, body)
    \/ \E p \in Procs : RegisterToken(p)
    \/ \E p \in Procs, body \in SigninBodies : Signin(p, body)
    \/ \E p \in Procs, token \in RequestTokens : Logout(p, token)
    \/ \E p \in Procs, token \in RequestTokens, orders \in BOOLEAN :
          GetMe(p, token, orders)
    \/ \E p \in Procs : GetMeOrders(p)
    \/ \E p \in Procs, token \in RequestTokens : UpdateMe(p, token)
    \/ \E p \in Procs, rest \in UpdateRests, pw \in UpdatePasswords :
          UpdateWrite(p, rest, pw)
    \/ \E p \in Procs : UpdateVerify(p)
    \/ \E p \in Procs : UpdateSave(p)
    \/ Tick

Spec == Init /\ [][Next]_vars

(***************************************************************************)
(* The products route (src/unnamed/part_000): catchAsync(handler).  The    *)
(* handler is cut at its two awaits, connectDB() and the controller it     *)
(* returns.  connectDB and the controllers are collaborators: each either  *)
(* completes or throws some error.                                         *)
(***************************************************************************)
\* req.method
Methods == {"GET", "POST", "PUT", "PATCH", "DELETE", "undefined"}

\* the errors a collaborator can throw: any name, with or without a status,
\* with or without a message
ThrownErrors ==
    [name : {"Error", "JsonWebTokenError", "TokenExpiredError"},
     statusCode : {0, 400, 503}, message : {"", "failed"}, errors : {{}}]

\* the promise of the handler rejects with error: the catch callback sends
\* res.status(statusCode).json({ message })
Caught(error) ==
    route' = [route EXCEPT !.pc = "done", !.error = error, !.sent = @ + 1,
                           !.status = CatchAsync(error).status,
                           !.message = CatchAsync(error).message]

\* const method = req.method; the handler runs up to await connectDB()
Handler(method) ==
    /\ route.pc = "idle"
    /\ route' = [route EXCEPT !.pc = "connect", !.method = method]
    /\ UNCHANGED << accountVars, mobile >>

\* await connectDB() resolves
ConnectDB ==
    /\ route.pc = "connect"
    /\ route' = [route EXCEPT !.pc = "switch", !.connected = TRUE]
    /\ UNCHANGED << accountVars, mobile >>

\* await connectDB() rejects
ConnectDBFails(error) ==
    /\ route.pc = "connect"
    /\ Caught(error)
    /\ UNCHANGED << accountVars, mobile >>

\* the switch that calls a controller for every method
SwitchNoDefault ==
    /\ route.pc = "switch"
    /\ route' = [route EXCEPT !.pc = "controller",
                    !.called = IF route.method = "POST"
                               THEN "createProduct" ELSE "getProducts"]
    /\ UNCHANGED << accountVars, mobile >>

\* switch (method)
Switch ==
    /\ route.pc = "switch"
    /\ IF route.method = "GET"
       THEN route' = [route EXCEPT !.pc = "controller", !.called = "getProducts"]
       ELSE IF route.method = "POST"
       THEN route' = [route EXCEPT !.pc = "controller", !.called = "createProduct"]
       ELSE Caught(CreateHttpError(405, "Method not allowed!"))
    /\ UNCHANGED << accountVars, mobile >>

\* the controller sends its response
ControllerResponds ==
    /\ route.pc = "controller"
    /\ route' = [route EXCEPT !.pc = "done", !.sent = @ + 1,
                              !.status = 200, !.message = "Success"]
    /\ UNCHANGED << accountVars, mobile >>

\* the controller throws
ControllerThrows(error) ==
    /\ route.pc = "controller"
    /\ Caught(error)
    /\ UNCHANGED << accountVars, mobile >>

NextProducts ==
    \/ \E method \in Methods : Handler(method)
    \/ ConnectDB
    \/ \E error \in ThrownErrors : ConnectDBFails(error)
    \/ Switch
    \/ ControllerResponds
    \/ \E error \in ThrownErrors : ControllerThrows(error)

SpecProducts == Init /\ [][NextProducts]_vars

(***************************************************************************)
(* formatMobile (src/lib/formatMobile.ts).  A number argument is the       *)
(* string value.toString() gives; the arguments are strings.               *)
(***************************************************************************)
\* \d
DigitChars == {"0", "1", "2", "3", "4", "5", "6", "7", "8", "9"}

IsDigit(c) == c \in DigitChars

Min(a, b) == IF a <= b THEN a ELSE b

\* .replace(/\D/g, '')
StripNonDigits(value) == SelectSeq(value, IsDigit)

\* .match(/(\d{0,3})(\d{0,3})(\d{0,4})/) on a string of digits: the three
\* groups, each as long as it can be, matched at the start of the string
MatchGroups(digits) ==
    LET n == Len(digits)
    IN  << SubSeq(digits, 1, Min(n, 3)),
           SubSeq(digits, 4, Min(n, 6)),
           SubSeq(digits, 7, Min(n, 10)) >>

\* formatMobile returning the digits ungrouped
FormatMobileUngrouped(value) ==
    LET x == MatchGroups(StripNonDigits(value))
    IN  x[1] \o x[2] \o x[3]

\* !x[2] ? x[1] : x[1] + '-' + x[2] + (x[3] ? '-' + x[3] : '')
FormatMobile(value) ==
    LET x == MatchGroups(StripNonDigits(value))
    IN  IF x[2] = Empty
        THEN x[1]
        ELSE x[1] \o << "-" >> \o x[2] \o
             (IF x[3] # Empty THEN << "-" >> \o x[3] ELSE Empty)

\* the strings over alphabet of length at most n
RECURSIVE Strings(_, _)
Strings(alphabet, n) ==
    IF n = 0
    THEN {Empty}
    ELSE LET shorter == Strings(alphabet, n - 1)
         IN  shorter \cup { Append(s, c) : s \in shorter, c \in alphabet }

\* the digits 1234567890123... of length n
DigitRun(n) ==
    [i \in 1..n |-> << "1", "2", "3", "4", "5", "6", "7", "8", "9", "0" >>[((i - 1) % 10) + 1]]

\* the arguments: every short string of digits and separators, and the
\* runs of up to MaxMobileDigits digits with one other character somewhere
MobileInputs ==
    Strings({"1", "2", "-"}, MaxMobileLen)
    \cup { DigitRun(n) : n \in 0..MaxMobileDigits }
    \cup { SubSeq(DigitRun(n), 1, Min(k, n)) \o << c >> \o
           SubSeq(DigitRun(n), Min(k, n) + 1, n) :
              n \in 1..MaxMobileDigits, k \in 0..MaxMobileDigits,
              c \in {"-", ".", "e", " "} }

\* formatMobile(value)
Format ==
    /\ mobile.pc = "start"
    /\ mobile' = [mobile EXCEPT !.pc = "once", !.once = FormatMobile(mobile.value)]
    /\ UNCHANGED << accountVars, route >>

\* formatMobile(formatMobile(value))
FormatAgain ==
    /\ mobile.pc = "once"
    /\ mobile' = [mobile EXCEPT !.pc = "twice", !.twice = FormatMobile(mobile.once)]
    /\ UNCHANGED << accountVars, route >>

InitMobile ==
    /\ AccountInit
    /\ route = NoRoute
    /\ \E value \in MobileInputs : mobile = [NoMobile EXCEPT !.pc = "start", !.value = value]

NextMobile == Format \/ FormatAgain

SpecMobile == InitMobile /\ [][NextMobile]_vars

(***************************************************************************)
(* Properties.                                                             *)
(***************************************************************************)
\* the records whose email is email
WithEmail(us, email) == { i \in 1..Len(us) : us[i].email = email }

\* slot p sends the response of its handler in this step
Responds(p) == pc'[p] = "idle" /\ out'.proc = p

\* C1: whenever register ends in an error (validation failure, duplicate
\* email, or generateToken throwing for want of a signing secret), the store
\* holds no record created by that call.
C1_FailedRegisterLeavesNoRecord ==
    [][\A p \in Procs :
          /\ (pc[p] = "idle" /\ Responds(p) /\ out'.op = "register")
                => users' = users
          /\ (pc[p] = "reg_token" /\ Responds(p) /\ out'.status # 201)
                => \A i \in 1..Len(users') : users'[i]._id # loc[p].newUser._id
      ]_vars

C3_RotationNeedsCurrentPassword ==
    [][\A p \in Procs :
          /\ ( /\ pc[p] = "upd_verify"
               /\ pc'[p] # "upd_verify"
               /\ ~ComparePassword(loc[p].password, users[loc[p].id].password) )
                => /\ Responds(p)
                   /\ out'.status = 400
                   /\ out'.message = "Wrong password!"
                   /\ users' = users
          /\ (pc'[p] = "upd_save" /\ pc[p] # "upd_save")
                => /\ pc[p] = "upd_verify"
                   /\ ComparePassword(loc[p].password, users[loc[p].id].password)
                   /\ users' = users
          /\ \A i \in 1..Len(users) :
                users'[i].password # users[i].password
                   => \E q \in Procs :
                         /\ pc[q] = "upd_save"
                         /\ loc[q].id = i
                         /\ Responds(q)
                         /\ out'.status = 200
                         /\ users'[i].password = Hash(loc[q].user.password)
      ]_vars

\* C4: whenever updateMe ends in an error, every field of the caller's
\* stored record is as it was when the call began.
C4_FailedUpdateLeavesRecord ==
    [][\A p \in Procs :
          ( /\ pc[p] \in {"upd_write", "upd_verify", "upd_save"}
            /\ Responds(p)
            /\ out'.status # 200 )
             => users'[loc[p].id] = loc[p].before
      ]_vars

\* the words of a name: its non-empty space-separated pieces
Words(name) == { i \in 1..Len(Split(name)) : Split(name)[i] # Empty }

\* C5: every stored record satisfies the write-time validation rules: its
\* name has at least two space-separated words, its email matches the email
\* pattern and its role is user or admin.
C5_StoredRecordsAreValid ==
    \A i \in 1..Len(users) :
       /\ Cardinality(Words(users[i].name)) >= 2
       /\ EmailMatch(users[i].email)
       /\ users[i].role \in {"user", "admin"}

\* the operations behind the authentication guard
Guarded == {"logout", "getMe", "updateMe"}

\* C6: logout, getMe and updateMe called without a valid session (token
\* missing, invalid, expired, or its id resolving to no record) answer 401
\* and do nothing else: no record is written, no cookie is set or cleared;
\* a handler gets past its first step only with a valid session.
C6_GuardBeforeEffect ==
    [][\A p \in Procs :
          /\ ( /\ pc[p] = "idle"
               /\ Responds(p)
               /\ out'.op \in Guarded
               /\ AuthError(out'.req.token) # NoError )
                => /\ out'.status = 401
                   /\ out'.cookie = NoSetCookie
                   /\ out'.user = NoUser
                   /\ users' = users
                   /\ issued' = issued
                   /\ signedOut' = signedOut
          /\ (pc[p] = "idle" /\ Responds(p) /\ out'.op \in Guarded /\ out'.status # 401)
                => AuthError(out'.req.token) = NoError
          /\ (pc[p] = "idle" /\ pc'[p] \in {"me_orders", "upd_write"})
                => /\ AuthError(loc'[p].req.token) = NoError
                   /\ users' = users
      ]_vars

\* C6 witness: updateMe called with a token that has expired was answered 401.
C6_Witness ==
    /\ out.op = "updateMe"
    /\ out.status = 401
    /\ out.req.token \in issued
    /\ now >= out.req.token.exp
    /\ users # << >>

\* C7: no two stored records have the same email, and a write refused as a
\* duplicate leaves the store unchanged.
C7_EmailUnique ==
    /\ [](\A i, j \in 1..Len(users) : i # j => users[i].email # users[j].email)
    /\ [][out'.message = "E11000 duplicate key error" => users' = users]_vars

\* C7 witness: an updateMe that set the email of another record was refused.
C7_Witness ==
    /\ out.op = "updateMe"
    /\ out.message = "E11000 duplicate key error"
    /\ Len(users) = 2
    /\ users[1].email # users[2].email

\* the records a signin body's password verifies for
Verified(req) ==
    { i \in 1..Len(users) :
         /\ users[i].email = Trim(req.email)
         /\ ComparePassword(req.password, users[i].password) }

\* the 400 answers of signin
SigninRefusals(req) ==
    /\ (~Truthy(req.email) \/ ~Truthy(req.password))
          => /\ out.status = 400
             /\ out.message = "Please provide email and password!"
    /\ (Truthy(req.email) /\ Truthy(req.password)
           /\ WithEmail(users, Trim(req.email)) = {})
          => /\ out.status = 400
             /\ out.message = "Invalid email!"
    /\ (Truthy(req.email) /\ Truthy(req.password)
           /\ WithEmail(users, Trim(req.email)) # {} /\ Verified(req) = {})
          => /\ out.status = 400
             /\ out.message = "Wrong password!"
    /\ out.status = 400 => out.cookie = NoSetCookie

\* signin answered 201 with a session cookie
SigninSucceeded ==
    /\ out.status = 201
    /\ out.cookie.name = "access-token"
    /\ out.cookie.value \in issued

\* C8 as claimed: signin answers 400 without a cookie when email or password
\* is absent, when no record has the email, and when the password does not
\* verify; it answers 201 with a session cookie exactly when the email
\* exists and the password verifies.
C8_SigninOutcomes ==
    out.op = "signin" =>
       /\ SigninRefusals(out.req)
       /\ SigninSucceeded <=>
             (Truthy(out.req.email) /\ Truthy(out.req.password)
                 /\ Verified(out.req) # {})

\* C8 as amended: the same, but signin answers 201 with a session cookie
\* exactly when the email exists, the password verifies and the signing
\* secret is set; without the secret it then answers 503 and sets no cookie.
C8_SigninOutcomesWithSecret ==
    out.op = "signin" =>
       /\ SigninRefusals(out.req)
       /\ SigninSucceeded <=>
             (Truthy(out.req.email) /\ Truthy(out.req.password)
                 /\ Verified(out.req) # {} /\ secret)
       /\ (Truthy(out.req.email) /\ Truthy(out.req.password)
              /\ Verified(out.req) # {} /\ ~secret)
             => /\ out.status = 503
                /\ out.message = "Cannot create access token!"
                /\ out.cookie = NoSetCookie
       /\ SigninSucceeded => out.cookie.value.id \in Verified(out.req)

\* C8 witness: signin with an existing email and its password was answered
\* 201 with a cookie.
C8_Witness ==
    /\ out.op = "signin"
    /\ SigninSucceeded
    /\ Verified(out.req) # {}

\* C9: for one client, register answers 201 with the sanitized user; signin
\* with the same credentials then answers 201 with a session cookie; logout
\* with that cookie answers 200 and clears it (no value, expiry in the
\* past); getMe sent with the cleared cookie then answers 401.
C9_EndToEnd ==
    [][/\ (out'.op = "register" /\ out'.status = 201)
             => /\ out'.user # NoUser
                /\ (DOMAIN out'.user) \cap {"password", "confirmPassword"} = {}
       /\ ( /\ out.op = "register" /\ out.status = 201
            /\ out'.op = "signin"
            /\ out'.req.email = out.req.email
            /\ out'.req.password = out.req.password )
             => /\ out'.status = 201
                /\ out'.cookie.name = "access-token"
                /\ out'.cookie.value \in issued'
                /\ out'.cookie.value.id = out.user._id
       /\ ( /\ out.op = "signin" /\ out.status = 201
            /\ out'.op = "logout"
            /\ out'.req.token = out.cookie.value )
             => /\ out'.status = 200
                /\ out'.cookie.name = "access-token"
                /\ out'.cookie.value = NoToken
                /\ out'.cookie.expires < now
       /\ ( /\ out.op = "logout" /\ out.status = 200
            /\ out'.op = "getMe"
            /\ out'.req.token = out.cookie.value )
             => out'.status = 401
      ]_vars

\* C10: logout changes no server-side state, and a token replayed after its
\* logout and before its expiry still passes the guard: getMe and updateMe
\* called with it are not answered 401, and getMe answers 200 with its user.
C10_SignOutKeepsToken ==
    [][\A p \in Procs :
          /\ (pc[p] = "idle" /\ Responds(p) /\ out'.op = "logout")
                => /\ users' = users
                   /\ issued' = issued
                   /\ secret' = secret
          /\ ( /\ pc[p] = "idle"
               /\ Responds(p)
               /\ out'.op \in {"getMe", "updateMe"}
               /\ out'.req.token \in signedOut
               /\ now < out'.req.token.exp )
                => /\ out'.status = 200
                   /\ out'.user._id = out'.req.token.id
      ]_vars

\* C10 witness: getMe called with a token after the logout of that token was
\* answered 200 with the token's user.
C10_Witness ==
    /\ out.op = "getMe"
    /\ out.status = 200
    /\ out.req.token \in signedOut
    /\ "orders" \notin DOMAIN out.user
    /\ out.user._id = out.req.token.id

\* C11: while no signing secret is set, generateToken throws 503 'Cannot
\* create access token!' and signs nothing: a register that got past its
\* insert and a signin whose credentials verified are answered 503 without
\* a cookie, no response of any operation carries a session cookie, and no
\* token has been signed in any reachable state.
C11_NoSecretNoSession ==
    [][~secret =>
          /\ issued = {} /\ issued' = {}
          /\ out'.cookie.value = NoToken
          /\ out'.status # 201
          /\ \A p \in Procs :
                (pc[p] = "reg_token" /\ pc'[p] # "reg_token")
                   => /\ Responds(p)
                      /\ out'.op = "register"
                      /\ out'.status = 503
                      /\ out'.message = "Cannot create access token!"
                      /\ out'.cookie = NoSetCookie
          /\ (out'.op = "signin" /\ Verified(out'.req) # {}
                 /\ Truthy(out'.req.email) /\ Truthy(out'.req.password))
                => /\ out'.status = 503
                   /\ out'.message = "Cannot create access token!"
                   /\ out'.cookie = NoSetCookie
      ]_vars

\* C11 witness: without a signing secret, a signin with a stored email and
\* its password was answered 503.
C11_Witness ==
    /\ ~secret
    /\ out.op = "signin"
    /\ out.status = 503
    /\ Verified(out.req) # {}
    /\ issued = {}

\* C12: the user a response carries, whatever the operation, has neither a
\* password nor a confirmPassword field.
C12_NoPasswordInResponse ==
    out.user # NoUser =>
       /\ out.op \in {"register", "signin", "getMe", "updateMe"}
       /\ (DOMAIN out.user) \cap {"password", "confirmPassword"} = {}
       /\ "_id" \in DOMAIN out.user

\* C12 witness: a signin, whose record is loaded with the password selected,
\* was answered 201 with its user.
C12_Witness ==
    /\ out.op = "signin"
    /\ out.status = 201
    /\ out.user # NoUser
    /\ out.user.email = Trim(out.req.email)

\* C13: the stored password of every record is the hasher's output for a
\* plaintext of at least 6 characters; the stored password of a record
\* changes only in the save of a successful rotation, and an updateMe whose
\* body does not carry both password and newPassword leaves it unchanged
\* whatever else the body carries.
C13_StoredPasswordIsHash ==
    /\ [](\A i \in 1..Len(users) :
             /\ users[i].password.alg = "bcrypt"
             /\ users[i].password = Hash(users[i].password.of)
             /\ Len(users[i].password.of) >= MinLength)
    /\ [][\A i \in 1..Len(users) :
             users'[i].password # users[i].password
                => \E q \in Procs :
                      /\ pc[q] = "upd_save"
                      /\ loc[q].id = i
                      /\ Responds(q)
                      /\ out'.status = 200
         ]_vars

\* C14: every failure of a handler is rendered by the boundary wrapper as
\* { message } at a status: JsonWebTokenError as 401 'Invalid token!',
\* TokenExpiredError as 401 'Token has been expired!', any other error at
\* its own status with its own message, 500 when it has no status and
\* 'Something went wrong!' when it has no message; a failed request is sent
\* exactly one response.
C14_BoundaryRendering ==
    [][LET e == route'.error
       IN  /\ route'.sent \in {route.sent, route.sent + 1}
           /\ route'.sent <= 1
           /\ (route'.pc = "done") = (route'.sent = 1)
           /\ (e # NoError /\ route.error = NoError) =>
                 /\ route'.sent = 1 /\ route.sent = 0
                 /\ e.name = "JsonWebTokenError"
                       => route'.status = 401 /\ route'.message = "Invalid token!"
                 /\ e.name = "TokenExpiredError"
                       => /\ route'.status = 401
                          /\ route'.message = "Token has been expired!"
                 /\ e.name \notin {"JsonWebTokenError", "TokenExpiredError"}
                       => /\ route'.status =
                                IF e.statusCode = 0 THEN 500 ELSE e.statusCode
                          /\ route'.message =
                                IF e.message = "" THEN "Something went wrong!"
                                ELSE e.message
      ]_vars

\* C14 witness: a TokenExpiredError that carried a status and a message of
\* its own was answered 401 'Token has been expired!'.
C14_Witness ==
    /\ route.pc = "done"
    /\ route.error.name = "TokenExpiredError"
    /\ route.error.statusCode = 400
    /\ route.status = 401
    /\ route.message = "Token has been expired!"
    /\ route.sent = 1

\* C18: the products handler calls a controller only after connectDB has
\* resolved, getProducts exactly for GET and createProduct exactly for
\* POST; for every other method it calls no controller and the wrapper
\* answers 405 'Method not allowed!'.
C18_ProductsDispatch ==
    [][/\ route'.called # "none" => route'.connected
       /\ route'.called = "getProducts" => route'.method = "GET"
       /\ route'.called = "createProduct" => route'.method = "POST"
       /\ (route.pc = "switch" /\ route'.pc # "switch") =>
             /\ route.connected
             /\ route.method = "GET" => route'.called = "getProducts"
             /\ route.method = "POST" => route'.called = "createProduct"
             /\ route.method \notin {"GET", "POST"} =>
                   /\ route'.called = "none"
                   /\ route'.pc = "done"
                   /\ route'.sent = 1
                   /\ route'.status = 405
                   /\ route'.message = "Method not allowed!"
       /\ (route.pc = "connect" /\ route'.pc = "done") => route'.called = "none"
      ]_vars

\* C18 witness: a DELETE request was answered 405 after the connection was
\* ensured, with no controller called.
C18_Witness ==
    /\ route.pc = "done"
    /\ route.method = "DELETE"
    /\ route.connected
    /\ route.called = "none"
    /\ route.status = 405

\* C15: a rotation writes its new hash only if the current password its
\* request supplied verifies against the hash stored at the moment of the
\* write, whatever other rotations of the record run concurrently.
C15_RotationIsAtomic ==
    [][\A q \in Procs :
          ( /\ pc[q] = "upd_save"
            /\ Responds(q)
            /\ out'.status = 200 )
             => ComparePassword(loc[q].req.password, users[loc[q].id].password)
      ]_vars

\* the password pw is accepted for record i by a signin answered in this step
SigninAnswers(i, pw, status, message) ==
    ( /\ out'.op = "signin"
      /\ Trim(out'.req.email) = users[i].email
      /\ out'.req.password = pw )
       => /\ out'.status = status
          /\ out'.message = message

\* C16: after a successful rotation from P to N, N different from P, and
\* until the next successful rotation, signin with the record's email and N
\* is answered 201 and signin with P is answered 400 'Wrong password!';
\* after a failed rotation signin with P still succeeds.  That is: the save
\* of a successful rotation leaves a stored password that verifies N and
\* not P; the stored password changes in no other step, in particular in no
\* step of a call that fails; and signin, the signing secret being set,
\* answers by the stored password.
C16_SigninFollowsRotation ==
    [][\A i \in 1..Len(users) :
          /\ \A q \in Procs :
                ( /\ pc[q] = "upd_save" /\ loc[q].id = i
                  /\ Responds(q) /\ out'.status = 200
                  /\ loc[q].req.newPassword # loc[q].req.password )
                   => /\ ComparePassword(loc[q].req.newPassword, users'[i].password)
                      /\ ~ComparePassword(loc[q].req.password, users'[i].password)
          /\ users'[i].password # users[i].password
                => \E q \in Procs :
                      /\ pc[q] = "upd_save" /\ loc[q].id = i
                      /\ Responds(q) /\ out'.status = 200
          /\ secret => \A pw \in {PassOne, PassTwo, PassPad} :
                IF ComparePassword(pw, users[i].password)
                THEN SigninAnswers(i, pw, 201, "Success")
                ELSE SigninAnswers(i, pw, 400, "Wrong password!")
      ]_vars

\* C17: a cookie that carries a token is set only by the 201 responses of
\* register and signin; its token was signed for the user the response
\* returns; it is httpOnly, sameSite strict and has an expiry; every 201 of
\* register and signin sets one; and besides register and signin only
\* logout sets a cookie.
C17_SessionCookie ==
    /\ out.cookie # NoSetCookie
          => /\ out.op \in {"register", "signin", "logout"}
             /\ out.cookie.name = "access-token"
    /\ out.cookie.value # NoToken
          => /\ out.op \in {"register", "signin"}
             /\ out.status = 201
             /\ out.cookie.value \in issued
             /\ out.user # NoUser
             /\ out.cookie.value.id = out.user._id
             /\ out.cookie.httpOnly
             /\ out.cookie.sameSite = "strict"
             /\ out.cookie.expires > Epoch
    /\ (out.op \in {"register", "signin"} /\ out.status = 201)
          => out.cookie.value # NoToken
    /\ (out.op \in {"register", "signin"} /\ out.status # 201)
          => out.cookie = NoSetCookie
    /\ out.op \in {"getMe", "updateMe"} => out.cookie = NoSetCookie

\* C17 witness: a register was answered 201 with a cookie whose token
\* carries the id of the user returned.
C17_Witness ==
    /\ out.op = "register"
    /\ out.status = 201
    /\ out.cookie.value \in issued
    /\ out.cookie.value.id = out.user._id
    /\ out.cookie.httpOnly

\* C19: formatMobile(x) holds the first up to 10 digits of x in their
\* order and nothing else but '-', which stands exactly after the third and
\* after the sixth digit when more digits follow (so never first or last,
\* and the result is empty when x has no digit); and formatting the result
\* again gives the result.
C19_FormatMobile ==
    LET d == StripNonDigits(mobile.value)
        n == Min(Len(d), 10)
        r == mobile.once
    IN  /\ mobile.pc \in {"once", "twice"} =>
              /\ StripNonDigits(r) = SubSeq(d, 1, n)
              /\ Len(r) = n + (IF n > 6 THEN 2 ELSE IF n > 3 THEN 1 ELSE 0)
              /\ \A i \in 1..Len(r) : (r[i] = "-") = (i \in {4, 8})
              /\ \A i \in 1..Len(r) : r[i] # "-" => r[i] \in DigitChars
              /\ r # Empty => r[1] # "-" /\ r[Len(r)] # "-"
              /\ (d = Empty) => r = Empty
        /\ mobile.pc = "twice" => mobile.twice = mobile.once

\* C19 witness: an argument of more than 10 digits with another character
\* among them was formatted to 3-3-4, and formatted again.
C19_Witness ==
    /\ mobile.pc = "twice"
    /\ Len(StripNonDigits(mobile.value)) > 10
    /\ Len(mobile.value) > Len(StripNonDigits(mobile.value))
    /\ mobile.once = << "1", "2", "3", "-", "4", "5", "6", "-", "7", "8", "9", "0" >>
    /\ mobile.twice = mobile.once

=============================================================================
